---------------------------- MODULE Spec2Model ----------------------------
(***************************************************************************)
(* A model of examples/simultaneous_translation: the latency metrics of    *)
(* utils/latency.py and the Berard speech-translation model of             *)
(* models/berard.py.                                                       *)
(*                                                                         *)
(* Tensors are sequences: a 2-d tensor of size (r, c) is a sequence of r   *)
(* rows, each a sequence of c entries.  Floating-point values are exact    *)
(* rationals <<n, d>> with d > 0 (rounding is not modelled).               *)
(***************************************************************************)
EXTENDS Integers, Sequences, FiniteSets, TLC

VARIABLES
    metric,               \* latency.py: the LatencyMetric subclass that was called
    delays,               \* latency.py: the delays argument of the call
    src_lens,             \* latency.py: the src_lens argument of the call
    target_padding_mask,  \* latency.py: the target_padding_mask argument (or None)
    batch_first,          \* latency.py: the batch_first argument
    start_from_zero,      \* latency.py: the start_from_zero argument / field
    result,               \* latency.py: what the call returned or raised
    self_start_from_zero, \* latency.py: LatencyInference.start_from_zero
    monotonic_step,       \* latency.py: the monotonic_step tensor of the caller
    args,                 \* berard.py: the argparse namespace given to build_model
    phase,                \* berard.py: how far the construction of the model got
    encoder,              \* berard.py: the BerardEncoder that build_encoder built
    decoder,              \* berard.py: the LSTMDecoder that build_decoder built
    conv_layers,          \* berard.py: BerardEncoder's conv_layers (kernel, stride)
    max_seq_len,          \* berard.py: src_tokens.size(1) of the batch
    src_lengths,          \* berard.py: the src_lengths of the batch
    forward_out,          \* berard.py: what BerardEncoder.forward returned or raised
    num_layers,           \* berard.py: LSTMDecoder.num_layers
    encoder_out_dict,     \* berard.py: the encoder_out given to LSTMDecoder.forward
    prev_output_tokens,   \* berard.py: the target prefix, size (bsz, length)
    incremental_state,    \* berard.py: the incremental_state of the generation loop
    incremental_outs,     \* berard.py: the outputs of the incremental calls, in order
    full_forward,         \* berard.py: the last forward without incremental_state
    last_call,            \* berard.py: the layer and attention calls of the last forward
    last_reorder,         \* berard.py: the last reorder_incremental_state call
    attention_in,         \* berard.py: the arguments of MLPAttention.forward
    attention_out         \* berard.py: what MLPAttention.forward returned

latencyVars == <<metric, delays, src_lens, target_padding_mask, batch_first,
                 start_from_zero, result, self_start_from_zero, monotonic_step>>

buildVars == <<args, phase, encoder, decoder>>

encoderVars == <<conv_layers, max_seq_len, src_lengths, forward_out>>

decoderVars == <<num_layers, encoder_out_dict, prev_output_tokens, incremental_state,
                 incremental_outs, full_forward, last_call, last_reorder,
                 attention_in, attention_out>>

vars == <<latencyVars, buildVars, encoderVars, decoderVars>>

-----------------------------------------------------------------------------
(* Bounds *)

MaxTgtLen == 2

MaxSrcLen == 2

MaxLstmSize == 3

MaxSeqLen == 10

MaxLayers == 2

MaxPrefix == 2

BatchSizes == {1, 2}

\* The sizes (bsz, heads) of the monotonic_step tensors
InferenceShapes ==
    {[bsz |-> 1, heads |-> 1], [bsz |-> 1, heads |-> 2], [bsz |-> 2, heads |-> 1]}

\* Python's None where a tensor is optional
None == <<>>

\* No exception was raised
NoError == "none"

-----------------------------------------------------------------------------
(* Rational arithmetic: what the float tensors hold, without rounding *)

R(n) == <<n, 1>>

RAdd(a, b) == <<a[1] * b[2] + b[1] * a[2], a[2] * b[2]>>

RSub(a, b) == <<a[1] * b[2] - b[1] * a[2], a[2] * b[2]>>

RDiv(a, b) ==
    IF b[1] < 0 THEN <<(0 - a[1]) * b[2], a[2] * (0 - b[1])>>
                ELSE <<a[1] * b[2], a[2] * b[1]>>

\* A zero denominator is the result of a division by zero (inf or nan), which
\* compares equal to nothing and below nothing.
RFinite(a) == a[2] > 0

RLe(a, b) == RFinite(a) /\ RFinite(b) /\ a[1] * b[2] <= b[1] * a[2]

REq(a, b) == RFinite(a) /\ RFinite(b) /\ a[1] * b[2] = b[1] * a[2]

RMax(a, b) == IF RLe(a, b) THEN b ELSE a

-----------------------------------------------------------------------------
(* Tensor helpers *)

\* A tensor holds its entries: Vec and Mat evaluate a vector or matrix given by
\* a rule to the tuple of its values.
Vec(f) == <<>> \o f

Mat(m) == Vec([i \in 1..Len(m) |-> Vec(m[i])])

Size(m) == <<Len(m), Len(m[1])>>

Transpose(m) == Mat([c \in 1..Len(m[1]) |-> [r \in 1..Len(m) |-> m[r][c]]])

RECURSIVE SumSeq(_)
SumSeq(s) == IF s = <<>> THEN 0 ELSE s[1] + SumSeq(Tail(s))

RECURSIVE RSumSeq(_)
RSumSeq(s) == IF s = <<>> THEN R(0) ELSE RAdd(s[1], RSumSeq(Tail(s)))

\* tensor + k
Plus(d, k) == Mat([i \in 1..Len(d) |-> [j \in 1..Len(d[1]) |-> d[i][j] + k]])

Column(m, b) == Vec([i \in 1..Len(m) |-> m[i][b]])

\* tensor.masked_fill(mask, v)
MaskedFill(m, mask, v) ==
    Mat([i \in 1..Len(m) |-> [b \in 1..Len(m[1]) |->
            IF mask[i][b] THEN v ELSE m[i][b]]])

-----------------------------------------------------------------------------
(* utils/latency.py: LatencyMetric *)

Metrics == {"AverageProportion", "AverageLagging", "DifferentiableAverageLagging"}

Raised(e) == [raised |-> e, value |-> None]

Returned(v) == [raised |-> NoError, value |-> v]

\* A variant that counts the padded positions too
length_with_padding(padding_mask) ==
    << Vec([b \in 1..Len(padding_mask[1]) |-> Len(padding_mask)]) >>

\* padding_mask.size(dim) - padding_mask.sum(dim=dim, keepdim=True), batch-last
length_from_padding_mask(padding_mask) ==
    << Vec([b \in 1..Len(padding_mask[1]) |->
          Len(padding_mask)
          - Cardinality({i \in 1..Len(padding_mask) : padding_mask[i][b]})]) >>

\* The locals of prepare_latency_metric at its return, or the exception it
\* raises.  tgt_len, bsz and bsz_1 are bound only in the batch_first branch.
prepare_latency_metric(d0, sl0, mask0, bf, sfz) ==
    LET d1 == IF sfz THEN Plus(d0, 1) ELSE d0
        d2 == IF bf THEN Transpose(d1) ELSE d1
        sl == IF bf THEN Transpose(sl0) ELSE sl0
        mask == IF bf /\ mask0 # None THEN Transpose(mask0) ELSE mask0
        tgt_len == Size(d2)[1]
        bsz == Size(d2)[2]
        bsz_1 == Size(sl)[2]
    IN  IF bf /\ mask # None /\ (tgt_len # Size(mask)[1] \/ bsz # Size(mask)[2])
        THEN [raised |-> "AssertionError"]
        ELSE IF ~bf
        THEN [raised |-> "UnboundLocalError"]
        ELSE IF bsz # bsz_1
        THEN [raised |-> "AssertionError"]
        ELSE IF mask = None
        THEN [raised |-> NoError, delays |-> d2, src_lens |-> sl,
              tgt_lens |-> << Vec([b \in 1..bsz |-> tgt_len]) >>,
              target_padding_mask |-> mask]
        ELSE [raised |-> NoError, delays |-> MaskedFill(d2, mask, 0), src_lens |-> sl,
              tgt_lens |-> length_from_padding_mask(mask),
              target_padding_mask |-> mask]

\* A variant that divides by the padded target length instead of tgt_lens
AverageProportion_cal_metric_padded_length(d, sl, tl, mask) ==
    LET dm == IF mask # None THEN MaskedFill(d, mask, 0) ELSE d
    IN  << Vec([b \in 1..Len(d[1]) |->
              RDiv(R(SumSeq(Column(dm, b))), R(sl[1][b] * Len(d)))]) >>

\* AP = sum(delays) / (src_lens * tgt_lens), size (1, bsz)
AverageProportion_cal_metric(d, sl, tl, mask) ==
    LET dm == IF mask # None THEN MaskedFill(d, mask, 0) ELSE d
    IN  << Vec([b \in 1..Len(d[1]) |->
              RDiv(R(SumSeq(Column(dm, b))), R(sl[1][b] * tl[1][b]))]) >>

\* A variant without the shift by one target position
lagging_padding_mask_unshifted(d, sl) ==
    Mat([i \in 1..Len(d) |-> [b \in 1..Len(d[1]) |-> d[i][b] >= sl[1][b]]])

\* delays >= src_lens, shifted down by one target position (a False first row)
lagging_padding_mask(d, sl) ==
    Mat([i \in 1..Len(d) |-> [b \in 1..Len(d[1]) |->
        IF i = 1 THEN FALSE ELSE d[i - 1][b] >= sl[1][b]]])

\* tgt_lens / src_lens, size (1, bsz)
Gamma(sl, tl) ==
    << Vec([b \in 1..Len(sl[1]) |-> RDiv(R(tl[1][b]), R(sl[1][b]))]) >>

\* x - arange(tgt_len) / gamma, entrywise
MinusIdeal(x, gamma) ==
    Mat([i \in 1..Len(x) |-> [b \in 1..Len(x[1]) |->
        RSub(x[i][b], RDiv(R(i - 1), gamma[1][b]))]])

ToR(d) == Mat([i \in 1..Len(d) |-> [b \in 1..Len(d[1]) |-> R(d[i][b])]])

AverageLagging_cal_metric(d, sl, tl, mask) ==
    LET lpm == lagging_padding_mask(d, sl)
        gamma == Gamma(sl, tl)
        lagging == MaskedFill(MinusIdeal(ToR(d), gamma), lpm, R(0))
        tau == Vec([b \in 1..Len(d[1]) |->
                    Cardinality({i \in 1..Len(d) : ~lpm[i][b]})])
    IN  << Vec([b \in 1..Len(d[1]) |->
              RDiv(RSumSeq(Column(lagging, b)), R(tau[b]))]) >>

\* A variant that advances by gamma instead of 1 / gamma
RECURSIVE new_delays_by_gamma(_, _, _)
new_delays_by_gamma(d, gamma, n) ==
    IF n = 1 THEN << Vec([b \in 1..Len(d[1]) |-> R(d[1][b])]) >>
    ELSE LET prev == new_delays_by_gamma(d, gamma, n - 1)
         IN  Append(prev, Vec([b \in 1..Len(d[1]) |->
                RMax(RAdd(prev[n - 1][b], gamma[1][b]), R(d[n][b]))]))

\* new_delays[0] = delays[0]; new_delays[i] = max(new_delays[i-1] + 1/gamma, delays[i])
RECURSIVE new_delays(_, _, _)
new_delays(d, gamma, n) ==
    IF n = 1 THEN << Vec([b \in 1..Len(d[1]) |-> R(d[1][b])]) >>
    ELSE LET prev == new_delays(d, gamma, n - 1)
         IN  Append(prev, Vec([b \in 1..Len(d[1]) |->
                RMax(RAdd(prev[n - 1][b], RDiv(R(1), gamma[1][b])), R(d[n][b]))]))

DifferentiableAverageLagging_cal_metric(d, sl, tl, mask) ==
    LET gamma == Gamma(sl, tl)
        DAL0 == MinusIdeal(new_delays(d, gamma, Len(d)), gamma)
        DAL1 == IF mask # None THEN MaskedFill(DAL0, mask, R(0)) ELSE DAL0
    IN  << Vec([b \in 1..Len(d[1]) |->
              RDiv(RSumSeq(Column(DAL1, b)), R(tl[1][b]))]) >>

cal_metric(m, d, sl, tl, mask) ==
    CASE m = "AverageProportion" -> AverageProportion_cal_metric(d, sl, tl, mask)
      [] m = "AverageLagging" -> AverageLagging_cal_metric(d, sl, tl, mask)
      [] m = "DifferentiableAverageLagging" ->
            DifferentiableAverageLagging_cal_metric(d, sl, tl, mask)

\* LatencyMetric.__call__
LatencyMetric_call(m, d0, sl0, mask0, bf, sfz) ==
    LET p == prepare_latency_metric(d0, sl0, mask0, bf, sfz)
    IN  IF p.raised # NoError THEN Raised(p.raised)
        ELSE Returned(cal_metric(m, p.delays, p.src_lens, p.tgt_lens,
                                 p.target_padding_mask))

-----------------------------------------------------------------------------
(* utils/latency.py: LatencyInference *)

MetricKeys ==
    {"differentiable_average_lagging", "average_lagging", "average_proportion"}

\* self.metric_calculator
metric_calculator(key) ==
    CASE key = "differentiable_average_lagging" -> "DifferentiableAverageLagging"
      [] key = "average_lagging" -> "AverageLagging"
      [] key = "average_proportion" -> "AverageProportion"

RECURSIVE MaxOf(_)
MaxOf(S) ==
    LET x == CHOOSE y \in S : TRUE
    IN  IF S = {x} THEN x
        ELSE LET m == MaxOf(S \ {x}) IN IF x > m THEN x ELSE m

\* if not self.start_from_zero: monotonic_step -= 1   (in place)
shifted_step(step, self_sfz) ==
    IF self_sfz THEN step
    ELSE Vec([b \in 1..Len(step) |-> Mat([h \in 1..Len(step[b]) |->
            [t \in 1..Len(step[b][h]) |-> step[b][h][t] - 1]])])

\* monotonic_step.view(bsz, -1, tgt_len).max(dim=1)[0], size (bsz, tgt_len)
max_over_heads(step) ==
    Mat([b \in 1..Len(step) |-> [t \in 1..Len(step[b][1]) |->
        MaxOf({step[b][h][t] : h \in 1..Len(step[b])})]])

\* A variant that clamps at src_len instead of src_len - 1
clamp_to_src_len(d, sl) ==
    Mat([b \in 1..Len(d) |-> [t \in 1..Len(d[b]) |->
        (IF d[b][t] > sl[b][1] THEN 0 ELSE d[b][t])
        + (IF d[b][t] <= sl[b][1] THEN 0 ELSE sl[b][1])]])

\* delays.masked_fill(delays >= src_lens, 0)
\*   + (src_lens - 1).expand_as(delays).masked_fill(delays < src_lens, 0)
clamp_to_src(d, sl) ==
    Mat([b \in 1..Len(d) |-> [t \in 1..Len(d[b]) |->
        (IF d[b][t] >= sl[b][1] THEN 0 ELSE d[b][t])
        + (IF d[b][t] < sl[b][1] THEN 0 ELSE sl[b][1] - 1)]])

\* The delays LatencyInference.__call__ hands to every metric
inference_delays(step, sl, self_sfz) ==
    clamp_to_src(max_over_heads(shifted_step(step, self_sfz)), sl)

\* LatencyInference.__call__: the returned dict, or the exception of a metric
LatencyInference_call(step, sl, self_sfz) ==
    LET d == inference_delays(step, sl, self_sfz)
        r == [key \in MetricKeys |->
                LatencyMetric_call(metric_calculator(key), d, sl, None, TRUE, TRUE)]
    IN  IF \E key \in MetricKeys : r[key].raised # NoError
        THEN Raised(r[CHOOSE key \in MetricKeys : r[key].raised # NoError].raised)
        ELSE Returned([key \in MetricKeys |-> Transpose(r[key].value)])

-----------------------------------------------------------------------------
(* models/berard.py: BerardASTModel.build_model *)

\* An attribute of the namespace holds None or a value <<v>>.  An option that was
\* not given on the command line is absent from the namespace (berard_ast relies
\* on that for its defaults); encoder_hidden_size, which build_encoder tests
\* against None, may also be present and hold None.
Val(v) == <<v>>

Has(a, name) == name \in DOMAIN a

\* getattr(args, name, default)
getattr(a, name, default) == IF Has(a, name) THEN a[name] ELSE default

SetAttr(a, name, v) ==
    [n \in DOMAIN a \cup {name} |-> IF n = name THEN v ELSE a[n]]

DefaultLstmSize == 256

\* berard_ast(args): the defaults of the architecture
berard_ast(a) ==
    LET a1 == SetAttr(a, "lstm_size", getattr(a, "lstm_size", Val(DefaultLstmSize)))
    IN  SetAttr(a1, "encoder_unidirectional",
                getattr(a1, "encoder_unidirectional", Val(FALSE)))

\* BerardEncoder.__init__: the fields that the decoder depends on
BerardEncoder_init(lstm_size, bidirectional) ==
    [lstm_size |-> lstm_size, bidirectional |-> bidirectional,
     output_dim |-> IF bidirectional THEN 2 * lstm_size ELSE lstm_size]

\* build_encoder: the encoder, the namespace it leaves and the exception raised.
\* In the else branch the right-hand side args.encoder_hidden_size is read first.
build_encoder(a) ==
    IF getattr(a, "encoder_hidden_size", None) # None
    THEN [raised |-> NoError, args |-> a,
          encoder |-> BerardEncoder_init(a["encoder_hidden_size"][1],
                                         ~a["encoder_unidirectional"][1])]
    ELSE IF ~Has(a, "encoder_hidden_size")
    THEN [raised |-> "AttributeError", args |-> a, encoder |-> None]
    ELSE [raised |-> NoError,
          args |-> SetAttr(a, "encoder_hidden_size", a["encoder_hidden_size"]),
          encoder |-> BerardEncoder_init(a["lstm_size"][1],
                                         ~a["encoder_unidirectional"][1])]

\* LSTMDecoder.__init__: nn.Linear and nn.LSTMCell need integer dimensions
LSTMDecoder_init(encoder_output_dim) ==
    IF encoder_output_dim = None
    THEN [raised |-> "TypeError", decoder |-> None]
    ELSE [raised |-> NoError,
          decoder |-> [encoder_output_dim |-> encoder_output_dim[1]]]

\* build_decoder: 2 * None raises TypeError
build_decoder(a) ==
    IF a["encoder_unidirectional"][1]
    THEN LSTMDecoder_init(a["encoder_hidden_size"])
    ELSE IF a["encoder_hidden_size"] = None
    THEN [raised |-> "TypeError", decoder |-> None]
    ELSE LSTMDecoder_init(Val(2 * a["encoder_hidden_size"][1]))

\* What the parser leaves for an option that was not given: no attribute
Absent == <<None, None>>

\* The namespace after parsing: --lstm-size, --encoder-hidden-size and
\* --encoder-unidirectional, each given or not
Namespace(ls, hs, us) ==
    LET given == [n \in {"lstm_size", "encoder_hidden_size", "encoder_unidirectional"}
                    |-> CASE n = "lstm_size" -> ls
                          [] n = "encoder_hidden_size" -> hs
                          [] n = "encoder_unidirectional" -> us]
    IN  [n \in {m \in DOMAIN given : given[m] # Absent} |-> given[n]]

ParsedArgs ==
    {Namespace(ls, hs, us) :
        ls \in {Absent} \cup {Val(v) : v \in 1..MaxLstmSize},
        hs \in {Absent, None} \cup {Val(v) : v \in 1..MaxLstmSize},
        us \in {Absent, Val(TRUE), Val(FALSE)}}

IdleBuild ==
    /\ args = <<>>
    /\ phase = "idle"
    /\ encoder = None
    /\ decoder = None

\* The namespace that the host hands to the architecture and to build_model
ArgsParsed ==
    /\ args \in ParsedArgs
    /\ phase = "parsed"
    /\ encoder = None
    /\ decoder = None

\* The host applies the architecture's defaults before it builds the model
ApplyArch ==
    /\ phase = "parsed"
    /\ args' = berard_ast(args)
    /\ phase' = "arch"
    /\ UNCHANGED <<encoder, decoder>>

\* BerardASTModel.build_model: build_encoder, then build_decoder
BuildModel ==
    /\ phase = "arch"
    /\ LET e == build_encoder(args)
           d == build_decoder(e.args)
       IN  IF e.raised # NoError
           THEN /\ phase' = e.raised
                /\ UNCHANGED <<args, encoder, decoder>>
           ELSE /\ args' = e.args
                /\ encoder' = e.encoder
                /\ IF d.raised # NoError
                   THEN phase' = d.raised /\ UNCHANGED decoder
                   ELSE phase' = "built" /\ decoder' = d.decoder

-----------------------------------------------------------------------------
(* models/berard.py: BerardEncoder.forward *)

Conv(k, s) == [kernel |-> k, stride |-> s]

\* berard_ast: "[(16, 3, 2), (16, 3, 2)]"
DefaultConvLayers == <<Conv(3, 2), Conv(3, 2)>>

\* --conv-layers: the default, one layer, and a layer with an even kernel
ConvConfigs == {DefaultConvLayers, <<Conv(3, 2)>>, <<Conv(2, 2)>>}

\* The time dimension after nn.Conv2d(kernel, stride, padding=kernel // 2)
conv_out_len(len, c) == ((len + 2 * (c.kernel \div 2) - c.kernel) \div c.stride) + 1

\* for conv_layer in self.conv_layers: x = conv_layer(x); x.size(2)
RECURSIVE output_seq_len(_, _)
output_seq_len(len, layers) ==
    IF layers = <<>> THEN len
    ELSE output_seq_len(conv_out_len(len, Head(layers)), Tail(layers))

\* int(max_seq_len * 1.0 / output_seq_len + 0.5)
subsampling_factor(len, out) == (2 * len + out) \div (2 * out)

CeilDiv(a, b) == (a + b - 1) \div b

\* (src_lengths.float() / subsampling_factor).ceil().long()
input_lengths(lens, factor) == Vec([b \in 1..Len(lens) |-> CeilDiv(lens[b], factor)])

\* nn.utils.rnn.pack_padded_sequence accepts lengths that are positive, sorted
\* in decreasing order and within the time dimension of x
PackAccepts(lens, T) ==
    /\ \A b \in 1..Len(lens) : lens[b] >= 1 /\ lens[b] <= T
    /\ \A b \in 1..(Len(lens) - 1) : lens[b] >= lens[b + 1]

\* The LSTM state of utterance b at subsampled frame t; the zero of the padding
Frame(b, t) == <<b, t>>

ZeroFrame == <<0, 0>>

\* pad_packed_sequence pads to the longest sequence of the batch
pad_packed_sequence(lens) ==
    Mat([t \in 1..MaxOf({lens[b] : b \in 1..Len(lens)}) |->
            [b \in 1..Len(lens) |-> IF t <= lens[b] THEN Frame(b, t) ELSE ZeroFrame]])

\* arange(output_seq_len) >= output_lengths, transposed to (T, B)
encoder_padding_mask(out, lens) ==
    Mat([t \in 1..out |-> [b \in 1..Len(lens) |-> (t - 1) >= lens[b]]])

\* BerardEncoder.forward
BerardEncoder_forward(layers, len, lens) ==
    LET out == output_seq_len(len, layers)
        factor == subsampling_factor(len, out)
        ilens == input_lengths(lens, factor)
        locals == [output_seq_len |-> out, subsampling_factor |-> factor,
                   input_lengths |-> ilens]
    IN  IF ~PackAccepts(ilens, out)
        THEN [raised |-> "RuntimeError", locals |-> locals,
              encoder_out |-> None, encoder_padding_mask |-> None]
        ELSE [raised |-> NoError, locals |-> locals,
              encoder_out |-> pad_packed_sequence(ilens),
              encoder_padding_mask |-> encoder_padding_mask(out, ilens)]

NotCalled == [raised |-> "pending"]

IdleEncoder ==
    /\ conv_layers = <<>>
    /\ max_seq_len = 0
    /\ src_lengths = <<>>
    /\ forward_out = NotCalled

\* An encoder and a batch of one or two utterances, padded to the longest
BatchCollated ==
    /\ conv_layers \in ConvConfigs
    /\ max_seq_len \in 1..MaxSeqLen
    /\ src_lengths \in UNION {[1..bsz -> 1..max_seq_len] : bsz \in BatchSizes}
    /\ \E b \in 1..Len(src_lengths) : src_lengths[b] = max_seq_len
    /\ forward_out = NotCalled

Forward ==
    /\ forward_out = NotCalled
    /\ max_seq_len > 0
    /\ forward_out' = BerardEncoder_forward(conv_layers, max_seq_len, src_lengths)
    /\ UNCHANGED <<conv_layers, max_seq_len, src_lengths>>

-----------------------------------------------------------------------------
(* models/berard.py: MLPAttention and LSTMDecoder.forward, dropout disabled *)

\* Hidden states, cells, embeddings and encoder states are single numbers of a
\* finite range (hidden_size = embed_dim = context_dim = 1); the learned
\* functions are fixed functions on that range.
Q(v) == v % 11

Vocabulary == {1, 2}

\* self.embed_tokens
embed_tokens(token) == Q(4 * token + 1)

\* layer(input, (h, c)) of self.layers[i]: the new (hidden, cell) of one sentence
LSTMCell(i, input, h, c) ==
    LET cell == Q(2 * c + 3 * input + 5 * h + i)
    IN  <<Q(7 * cell + input + 2 * h + 3 * i), cell>>

\* exp(score) of a decoder state and an encoder state: positive
ExpScore(state, source_hid) == 1 + ((state + 2 * source_hid) % 3)

\* A variant that leaves the scores of the padded positions as they are
MLPAttention_forward_unmasked(state, source_hids, padding_mask) ==
    LET e == Vec([t \in 1..Len(source_hids) |-> ExpScore(state, source_hids[t])])
        z == SumSeq(e)
        weighted == Vec([t \in 1..Len(source_hids) |-> source_hids[t] * e[t]])
    IN  [context |-> Q(SumSeq(weighted) \div z),
         attn_weighted_context |-> <<SumSeq(weighted), z>>,
         scores |-> Vec([t \in 1..Len(source_hids) |-> <<e[t], z>>])]

\* MLPAttention.forward for one sentence: the weights are exp(score) over their
\* sum, 0 at padded positions; attn_weighted_context is the weighted sum of the
\* encoder states, an exact fraction, and context is that sum rounded down into
\* the value range.
MLPAttention_forward(state, source_hids, padding_mask) ==
    LET e == Vec([t \in 1..Len(source_hids) |->
                    IF padding_mask # None /\ padding_mask[t] THEN 0
                    ELSE ExpScore(state, source_hids[t])])
        z == SumSeq(e)
        weighted == Vec([t \in 1..Len(source_hids) |-> source_hids[t] * e[t]])
    IN  [context |-> Q(SumSeq(weighted) \div z),
         attn_weighted_context |-> <<SumSeq(weighted), z>>,
         scores |-> Vec([t \in 1..Len(source_hids) |-> <<e[t], z>>])]

\* deep_output_layer, tanh and output_projection on the concatenation of the
\* top layer's hidden state, the attention output and the embedding
output_layer(hidden, context, embedding) ==
    Q(hidden + 3 * context + 5 * embedding)

\* Every layer reading its own previous state, as a plain stacked LSTM does
PrevLayerOwn(i, n) == i

\* The layer whose entry of prev_hiddens and prev_cells layer i reads (layers
\* 1..n): prev_hiddens[(i - 1) % self.num_layers]
PrevLayer(i, n) == ((i - 2) % n) + 1

\* The body of `for i, layer in enumerate(self.layers)` for layers i..n at time
\* step j.  st holds prev_hiddens, prev_cells, the input of layer i, the
\* attention_out (None before layer 1 ran) and the calls made so far.
RECURSIVE LayerLoop(_, _, _, _, _)
LayerLoop(st, i, n, j, enc) ==
    IF i > n THEN st
    ELSE
      LET bsz == Len(st.input)
          p == PrevLayer(i, n)
          hc == Vec([b \in 1..bsz |->
                      LSTMCell(i, st.input[b], st.prev_hiddens[p][b],
                               st.prev_cells[p][b])])
          hidden == Vec([b \in 1..bsz |-> hc[b][1]])
          cell == Vec([b \in 1..bsz |-> hc[b][2]])
          att == IF st.attention_out = None
                 THEN Vec([b \in 1..bsz |->
                        MLPAttention_forward(
                            hidden[b], Column(enc.encoder_out, b),
                            IF enc.encoder_padding_mask = None THEN None
                            ELSE Column(enc.encoder_padding_mask, b)).context])
                 ELSE st.attention_out
          call == [j |-> j, i |-> i, input |-> st.input,
                   prev_hidden |-> st.prev_hiddens[p], prev_cell |-> st.prev_cells[p],
                   hidden |-> hidden, cell |-> cell]
      IN  LayerLoop(
            [prev_hiddens |-> [st.prev_hiddens EXCEPT ![i] = hidden],
             prev_cells |-> [st.prev_cells EXCEPT ![i] = cell],
             input |-> att,
             attention_out |-> att,
             hidden |-> hidden,
             layer_calls |-> Append(st.layer_calls, call),
             attention_calls |->
                IF st.attention_out = None
                THEN Append(st.attention_calls,
                            [j |-> j, decoder_state |-> hidden, attention_out |-> att])
                ELSE st.attention_calls,
             outs |-> st.outs, attention_outs |-> st.attention_outs],
            i + 1, n, j, enc)

\* The body of `for j in range(seqlen)` for the time steps j..seqlen; x is the
\* embedded input, size (seqlen, bsz)
RECURSIVE TimeLoop(_, _, _, _, _)
TimeLoop(st, j, n, x, enc) ==
    IF j > Len(x) THEN st
    ELSE
      LET s1 == LayerLoop([st EXCEPT !.input = x[j], !.attention_out = None],
                          1, n, j, enc)
      IN  TimeLoop([s1 EXCEPT !.outs = Append(st.outs, s1.hidden),
                              !.attention_outs = Append(st.attention_outs,
                                                        s1.attention_out)],
                   j + 1, n, x, enc)

\* Python's None for incremental_state; a dict is <<cached_state>>, with
\* cached_state None or <<prev_hiddens, prev_cells>>
EmptyDict == <<None>>

Zeros(bsz) == Vec([b \in 1..bsz |-> 0])

\* The prefix left whole
WholePrefix(tokens) == tokens

\* prev_output_tokens[:, -1:]
LastToken(tokens) == Mat([b \in 1..Len(tokens) |-> <<tokens[b][Len(tokens[b])]>>])

\* LSTMDecoder.forward: the output x of size (bsz, seqlen), the incremental_state
\* it leaves, the final prev_hiddens and prev_cells, and the calls it made
LSTMDecoder_forward(n, tokens, enc, inc_state) ==
    LET toks == IF inc_state # None THEN LastToken(tokens) ELSE tokens
        bsz == Len(toks)
        seqlen == Len(toks[1])
        embeddings == Mat([b \in 1..bsz |-> [j \in 1..seqlen |->
                            embed_tokens(toks[b][j])]])
        x == Transpose(embeddings)
        cached_state == IF inc_state = None THEN None ELSE inc_state[1]
        prev_hiddens == IF cached_state # None THEN cached_state[1]
                        ELSE Vec([i \in 1..n |-> Zeros(bsz)])
        prev_cells == IF cached_state # None THEN cached_state[2]
                      ELSE Vec([i \in 1..n |-> Zeros(bsz)])
        st == TimeLoop([prev_hiddens |-> prev_hiddens, prev_cells |-> prev_cells,
                        input |-> None, attention_out |-> None, hidden |-> None,
                        layer_calls |-> <<>>, attention_calls |-> <<>>,
                        outs |-> <<>>, attention_outs |-> <<>>],
                       1, n, x, enc)
    IN  [x |-> Mat([b \in 1..bsz |-> [j \in 1..seqlen |->
                      output_layer(st.outs[j][b], st.attention_outs[j][b],
                                   embeddings[b][j])]]),
         incremental_state |->
            IF inc_state = None THEN None
            ELSE << <<st.prev_hiddens, st.prev_cells>> >>,
         prev_hiddens |-> st.prev_hiddens,
         prev_cells |-> st.prev_cells,
         call |-> [cached |-> cached_state # None, seqlen |-> seqlen,
                   init_hiddens |-> prev_hiddens, init_cells |-> prev_cells,
                   layer_calls |-> st.layer_calls,
                   attention_calls |-> st.attention_calls]]

\* Tensor.index_select(0, new_order) and Tensor.index_select(1, new_order);
\* new_order counts from 1
index_select_0(m, new_order) == Vec([b \in 1..Len(new_order) |-> m[new_order[b]]])

index_select_1(m, new_order) ==
    Mat([t \in 1..Len(m) |-> [b \in 1..Len(new_order) |-> m[t][new_order[b]]]])

\* reorder_state of a list of per-layer tensors
reorder_state(state, new_order) ==
    Vec([l \in 1..Len(state) |-> index_select_0(state[l], new_order)])

\* The hiddens reordered and the cells left as they are
reorder_hiddens_only(cached_state, new_order) ==
    <<reorder_state(cached_state[1], new_order), cached_state[2]>>

\* tuple(map(reorder_state, cached_state))
reorder_cached_state(cached_state, new_order) ==
    <<reorder_state(cached_state[1], new_order),
      reorder_state(cached_state[2], new_order)>>

\* LSTMDecoder.reorder_incremental_state: the incremental_state it leaves
LSTMDecoder_reorder_incremental_state(inc_state, new_order) ==
    LET cached_state == IF inc_state = None THEN None ELSE inc_state[1]
    IN  IF cached_state = None THEN inc_state
        ELSE <<reorder_cached_state(cached_state, new_order)>>

\* The states reordered and the padding mask left as it is
reorder_encoder_out_states_only(enc, new_order) ==
    [enc EXCEPT !.encoder_out = index_select_1(@, new_order)]

\* BerardEncoder.reorder_encoder_out
BerardEncoder_reorder_encoder_out(enc, new_order) ==
    [enc EXCEPT !.encoder_out = index_select_1(@, new_order),
                !.encoder_padding_mask = index_select_1(@, new_order)]

\* The index lists over a batch of bsz sentences
NewOrders(bsz) == UNION {[1..n -> 1..bsz] : n \in BatchSizes}

\* reorder_encoder_out on the dictionary forward returned, which it changes in
\* place
ReorderEncoderOut ==
    /\ forward_out.raised = NoError
    /\ \E new_order \in NewOrders(Len(forward_out.encoder_out[1])) :
         forward_out' = BerardEncoder_reorder_encoder_out(forward_out, new_order)
    /\ UNCHANGED <<conv_layers, max_seq_len, src_lengths>>

\* The values of an encoder state and of a decoder state in the attention calls
HidValues == {0, 1, 2}

StateValues == {0, 1}

\* The arguments of one MLPAttention.forward call: decoder_state of size (bsz),
\* source_hids of size (src_len, bsz), and encoder_padding_mask of size
\* (src_len, bsz) or None; the mask pads a suffix of every sentence and leaves
\* its first frame, as the lengths the encoder packs are at least 1.
AttentionArgs ==
    UNION {
      {[decoder_state |-> Vec(st), source_hids |-> Mat(hids),
        encoder_padding_mask |->
            IF real = <<>> THEN None
            ELSE Mat([t \in 1..n |-> [b \in 1..bsz |-> t > real[b]]])] :
          st \in [1..bsz -> StateValues],
          hids \in [1..n -> [1..bsz -> HidValues]],
          real \in {<<>>} \cup [1..bsz -> 1..n]} :
      bsz \in BatchSizes, n \in 1..MaxSrcLen}

\* The decoder's attention module before a call
AttentionReady ==
    /\ num_layers = 0
    /\ encoder_out_dict = None
    /\ prev_output_tokens = None
    /\ incremental_state = None
    /\ incremental_outs = <<>>
    /\ full_forward = [tokens |-> None]
    /\ last_call = [seqlen |-> 0]
    /\ last_reorder = [new_order |-> None]
    /\ attention_in \in AttentionArgs
    /\ attention_out = None

\* MLPAttention.forward on a batch: one result per sentence
Attend ==
    /\ attention_in # None
    /\ attention_out = None
    /\ attention_out' =
          Vec([b \in 1..Len(attention_in.decoder_state) |->
                MLPAttention_forward(
                    attention_in.decoder_state[b],
                    Column(attention_in.source_hids, b),
                    IF attention_in.encoder_padding_mask = None THEN None
                    ELSE Column(attention_in.encoder_padding_mask, b))])
    /\ UNCHANGED <<num_layers, encoder_out_dict, prev_output_tokens,
                   incremental_state, incremental_outs, full_forward, last_call,
                   last_reorder, attention_in>>

NoCall == [seqlen |-> 0]

NoReorder == [new_order |-> None]

NoForward == [tokens |-> None]

IdleDecoder ==
    /\ num_layers = 0
    /\ encoder_out_dict = None
    /\ prev_output_tokens = None
    /\ incremental_state = None
    /\ incremental_outs = <<>>
    /\ full_forward = NoForward
    /\ last_call = NoCall
    /\ last_reorder = NoReorder
    /\ attention_in = None
    /\ attention_out = None

\* The encoder outputs of a batch of bsz sentences and two source frames, the
\* second frame of the first sentence padded or not
EncoderOuts(bsz) ==
    {[encoder_out |-> Mat([t \in 1..2 |-> [b \in 1..bsz |-> Q(3 * t + 4 * b)]]),
      encoder_padding_mask |-> Mat([t \in 1..2 |-> [b \in 1..bsz |->
                                      padded /\ t = 2 /\ b = 1]])] :
        padded \in BOOLEAN}

\* A decoder and the encoder output of a batch, before the first target token;
\* the generation loop starts with an empty incremental_state.
DecoderReady ==
    \E bsz \in BatchSizes :
        /\ num_layers \in 1..MaxLayers
        /\ encoder_out_dict \in EncoderOuts(bsz)
        /\ prev_output_tokens = Vec([b \in 1..bsz |-> <<>>])
        /\ incremental_state = EmptyDict
        /\ incremental_outs = <<>>
        /\ full_forward = NoForward
        /\ last_call = NoCall
        /\ last_reorder = NoReorder
        /\ attention_in = None
        /\ attention_out = None

\* One step of incremental generation: the prefix grows by one token per
\* sentence and forward is called with the shared incremental_state.
IncrementalForward ==
    /\ num_layers > 0
    /\ Len(prev_output_tokens[1]) < MaxPrefix
    /\ \E next \in [1..Len(prev_output_tokens) -> Vocabulary] :
         LET tokens == Vec([b \in 1..Len(prev_output_tokens) |->
                              Append(prev_output_tokens[b], next[b])])
             r == LSTMDecoder_forward(num_layers, tokens, encoder_out_dict,
                                      incremental_state)
         IN  /\ prev_output_tokens' = tokens
             /\ incremental_state' = r.incremental_state
             /\ incremental_outs' = Append(incremental_outs, r.x)
             /\ last_call' = r.call
    /\ last_reorder' = NoReorder
    /\ UNCHANGED <<num_layers, encoder_out_dict, full_forward, attention_in,
                   attention_out>>

\* forward over the whole prefix, without incremental_state
FullForward ==
    /\ num_layers > 0
    /\ Len(prev_output_tokens[1]) > 0
    /\ full_forward.tokens # prev_output_tokens
    /\ LET r == LSTMDecoder_forward(num_layers, prev_output_tokens,
                                    encoder_out_dict, None)
       IN  /\ full_forward' = [tokens |-> prev_output_tokens, x |-> r.x,
                               prev_hiddens |-> r.prev_hiddens,
                               prev_cells |-> r.prev_cells]
           /\ last_call' = r.call
    /\ UNCHANGED <<num_layers, encoder_out_dict, prev_output_tokens,
                   incremental_state, incremental_outs, last_reorder,
                   attention_in, attention_out>>

\* The reorder step of the generation loop: the sentences of the batch are
\* selected by new_order in the prefix, in the encoder output, in the outputs
\* kept so far and, by reorder_incremental_state, in the cached state; the
\* loop reorders once between two decoder steps.
Reorder ==
    /\ num_layers > 0
    /\ last_reorder = NoReorder
    /\ \E new_order \in NewOrders(Len(prev_output_tokens)) :
         LET after == LSTMDecoder_reorder_incremental_state(incremental_state,
                                                           new_order)
         IN  /\ incremental_state' = after
             /\ last_reorder' = [new_order |-> new_order,
                                 before |-> incremental_state, after |-> after]
             /\ prev_output_tokens' = index_select_0(prev_output_tokens, new_order)
             /\ encoder_out_dict' =
                    BerardEncoder_reorder_encoder_out(encoder_out_dict, new_order)
             /\ incremental_outs' =
                    Vec([t \in 1..Len(incremental_outs) |->
                            index_select_0(incremental_outs[t], new_order)])
    /\ full_forward' = NoForward
    /\ UNCHANGED <<num_layers, last_call, attention_in, attention_out>>

-----------------------------------------------------------------------------
(* Inputs of the latency calls *)

\* The call has not been made yet
Pending == [raised |-> "pending", value |-> None]

\* Zero-based delays of tgt target positions for the sentences of src lengths
\* sl, batch-last: every delay is a source step of its own sentence.
ZeroBasedDelays(tgt, sl) ==
    [1..tgt -> {r \in [1..Len(sl) -> 0..(MaxSrcLen - 1)] :
                   \A b \in 1..Len(sl) : r[b] < sl[b]}]

\* No mask, or a mask that pads a suffix of each sentence's target positions and
\* leaves at least its first position.
PaddingMasks(tgt, bsz) ==
    {None} \cup
    {Mat([i \in 1..tgt |-> [b \in 1..bsz |-> i > real[b]]]) :
        real \in [1..bsz -> 1..tgt]}

\* The arguments in the layout that batch_first announces.
Layout(x, bf) == IF bf /\ x # None THEN Transpose(x) ELSE x

\* The data of a caller before it calls a metric: zero-based delays and the
\* mask, batch-last, and the source lengths.
InitMetric ==
    \E bsz \in BatchSizes, tgt \in 1..MaxTgtLen :
      \E sl \in [1..bsz -> 1..MaxSrcLen] :
        \E d \in ZeroBasedDelays(tgt, sl), pm \in PaddingMasks(tgt, bsz) :
          /\ metric = "none"
          /\ batch_first = FALSE
          /\ start_from_zero = TRUE
          /\ delays = d
          /\ src_lens = <<sl>>
          /\ target_padding_mask = pm
          /\ result = Pending
          /\ self_start_from_zero = TRUE
          /\ monotonic_step = None

\* LatencyMetric.__call__: the caller picks a metric, counts the delays from 0 or
\* from 1 and passes its tensors in the layout that batch_first announces.
MetricCall ==
    /\ metric = "none"
    /\ result = Pending
    /\ \E m \in Metrics, bf \in BOOLEAN, sfz \in BOOLEAN :
         LET d == Layout(Plus(delays, IF sfz THEN 0 ELSE 1), bf)
             sl == Layout(src_lens, bf)
             pm == Layout(target_padding_mask, bf)
         IN  /\ metric' = m
             /\ batch_first' = bf
             /\ start_from_zero' = sfz
             /\ delays' = d
             /\ src_lens' = sl
             /\ target_padding_mask' = pm
             /\ result' = LatencyMetric_call(m, d, sl, pm, bf, sfz)
    /\ UNCHANGED <<self_start_from_zero, monotonic_step>>

\* Steps 0..src_len (src_len means eos) of every head, counted from 0 or from 1
\* as the object's start_from_zero says; size (bsz, heads, tgt_len).
MonotonicSteps(heads, tgt, sl, self_sfz) ==
    {Vec([b \in 1..Len(sl) |-> Mat([h \in 1..heads |-> [t \in 1..tgt |->
          z[b][h][t] + (IF self_sfz THEN 0 ELSE 1)]])]) :
        z \in {y \in [1..Len(sl) -> [1..heads -> [1..tgt -> 0..MaxSrcLen]]] :
                 \A b \in 1..Len(sl), h \in 1..heads, t \in 1..tgt :
                    y[b][h][t] <= sl[b]}}

\* A LatencyInference object and the arguments of one call of it.
InitInference ==
    \E self_sfz \in BOOLEAN, shape \in InferenceShapes, tgt \in 1..MaxTgtLen :
      \E sl \in [1..shape.bsz -> 1..MaxSrcLen] :
        \E step \in MonotonicSteps(shape.heads, tgt, sl, self_sfz) :
          /\ metric = "LatencyInference"
          /\ self_start_from_zero = self_sfz
          /\ monotonic_step = step
          /\ src_lens = Transpose(<<sl>>)
          /\ delays = None
          /\ target_padding_mask = None
          /\ batch_first = TRUE
          /\ start_from_zero = TRUE
          /\ result = Pending

\* LatencyInference.__call__: monotonic_step is shifted in place, delays are the
\* delays handed to the metrics with batch_first=True, start_from_zero=True.
InferenceCall ==
    /\ metric = "LatencyInference"
    /\ result = Pending
    /\ monotonic_step' = shifted_step(monotonic_step, self_start_from_zero)
    /\ delays' = inference_delays(monotonic_step, src_lens, self_start_from_zero)
    /\ result' = LatencyInference_call(monotonic_step, src_lens, self_start_from_zero)
    /\ UNCHANGED <<metric, src_lens, target_padding_mask, batch_first,
                   start_from_zero, self_start_from_zero>>

InitLatency == (InitMetric \/ InitInference) /\ IdleBuild /\ IdleEncoder /\ IdleDecoder

NextLatency ==
    \/ MetricCall /\ UNCHANGED <<buildVars, encoderVars, decoderVars>>
    \/ InferenceCall /\ UNCHANGED <<buildVars, encoderVars, decoderVars>>

SpecLatency == InitLatency /\ [][NextLatency]_vars

-----------------------------------------------------------------------------
(* Claims about utils/latency.py, checked under SpecLatency *)

MetricReturned(m) == metric = m /\ result.raised = NoError

\* Sentence b of a returned metric call (the call was batch-first): its one-based
\* delays, its source length, whether position i is padding, its target length.
OneBased(b) ==
    [i \in 1..Len(delays[b]) |-> delays[b][i] + (IF start_from_zero THEN 1 ELSE 0)]

SrcLen(b) == src_lens[b][1]

IsPad(b, i) == target_padding_mask # None /\ target_padding_mask[b][i]

TgtLen(b) == Cardinality({i \in 1..Len(delays[b]) : ~IsPad(b, i)})

NonDecreasing(col) == \A i \in 1..(Len(col) - 1) : col[i] <= col[i + 1]

\* C1: a metric called with the default batch_first=False on batch-last inputs
\* of the documented sizes raises nothing and returns a (1, batch_size) tensor.
C1_BatchLastCallReturns ==
    (metric \in Metrics /\ ~batch_first) =>
        /\ result.raised = NoError
        /\ Size(result.value) = <<1, Len(delays[1])>>

\* tau: the smallest position whose delay is |x|, or |y| when there is none
RefTau(col, x) ==
    IF \E i \in 1..Len(col) : col[i] = x
    THEN CHOOSE i \in 1..Len(col) :
            col[i] = x /\ \A k \in 1..(i - 1) : col[k] # x
    ELSE Len(col)

\* sum_{i = 1..n} (col_i - (i - 1) * x / y)
RECURSIVE RefLagSum(_, _, _, _)
RefLagSum(col, x, y, n) ==
    IF n = 0 THEN R(0)
    ELSE RAdd(RefLagSum(col, x, y, n - 1), RSub(R(col[n]), <<(n - 1) * x, y>>))

RefAL(col, x) ==
    RDiv(RefLagSum(col, x, Len(col), RefTau(col, x)), R(RefTau(col, x)))

\* C3: without target padding, for every sentence with non-decreasing delays in
\* 1..|x|, AverageLagging returns (1/tau) sum_{i<=tau} (delays_i - (i-1)/gamma),
\* gamma = |y|/|x|, tau the first position whose delay is |x| (|y| if none).
C3_AverageLagging ==
    (MetricReturned("AverageLagging") /\ target_padding_mask = None) =>
        \A b \in 1..Len(delays) :
            NonDecreasing(OneBased(b)) =>
                REq(result.value[1][b], RefAL(OneBased(b), SrcLen(b)))

\* A sentence whose delays reach |x| before its last target position.
C3_Witness ==
    /\ MetricReturned("AverageLagging")
    /\ target_padding_mask = None
    /\ \E b \in 1..Len(delays) :
          /\ NonDecreasing(OneBased(b))
          /\ RefTau(OneBased(b), SrcLen(b)) < Len(delays[b])
          /\ SrcLen(b) > 1

\* delays'_1 = delays_1, delays'_i = max(delays_i, delays'_{i-1} + x / y)
RECURSIVE RefNewDelay(_, _, _, _)
RefNewDelay(col, x, y, i) ==
    IF i = 1 THEN R(col[1])
    ELSE RMax(R(col[i]), RAdd(RefNewDelay(col, x, y, i - 1), <<x, y>>))

RECURSIVE RefDALSum(_, _, _, _)
RefDALSum(col, x, y, n) ==
    IF n = 0 THEN R(0)
    ELSE RAdd(RefDALSum(col, x, y, n - 1),
              RSub(RefNewDelay(col, x, y, n), <<(n - 1) * x, y>>))

RefDAL(col, x) == RDiv(RefDALSum(col, x, Len(col), Len(col)), R(Len(col)))

\* The new_delays tensor of the call that returned
CallNewDelays ==
    LET p == prepare_latency_metric(delays, src_lens, target_padding_mask,
                                    batch_first, start_from_zero)
    IN  new_delays(p.delays, Gamma(p.src_lens, p.tgt_lens), Len(p.delays))

\* C4: without target padding, DifferentiableAverageLagging returns
\* (1/|y|) sum_i (delays'_i - (i-1)/gamma) with delays'_1 = delays_1 and
\* delays'_i = max(delays_i, delays'_{i-1} + 1/gamma); its delays' satisfy
\* delays'_i >= delays_i and delays'_i - delays'_{i-1} >= 1/gamma.
C4_DifferentiableAverageLagging ==
    (MetricReturned("DifferentiableAverageLagging") /\ target_padding_mask = None) =>
        \A b \in 1..Len(delays) :
            LET col == OneBased(b)
                x == SrcLen(b)
                y == Len(col)
                nd == CallNewDelays
            IN  /\ REq(result.value[1][b], RefDAL(col, x))
                /\ \A i \in 1..y :
                      /\ REq(nd[i][b], RefNewDelay(col, x, y, i))
                      /\ RLe(R(col[i]), nd[i][b])
                      /\ i > 1 => RLe(<<x, y>>, RSub(nd[i][b], nd[i - 1][b]))

\* A sentence where a delay is raised above the monotonic step it was given.
C4_Witness ==
    /\ MetricReturned("DifferentiableAverageLagging")
    /\ target_padding_mask = None
    /\ \E b \in 1..Len(delays) : \E i \in 2..Len(delays[b]) :
          /\ ~RLe(CallNewDelays[i][b], R(OneBased(b)[i]))
          /\ SrcLen(b) # Len(delays[b])

RECURSIVE RefRealSum(_, _, _)
RefRealSum(b, col, n) ==
    IF n = 0 THEN 0
    ELSE RefRealSum(b, col, n - 1) + (IF IsPad(b, n) THEN 0 ELSE col[n])

RefAP(b) == <<RefRealSum(b, OneBased(b), Len(delays[b])), SrcLen(b) * TgtLen(b)>>

\* C5: AverageProportion returns sum_i delays_i / (|x| |y|) for every sentence,
\* and with every delay in 1..|x| the value lies in (0, 1].
C5_AverageProportion ==
    MetricReturned("AverageProportion") =>
        \A b \in 1..Len(delays) :
            /\ REq(result.value[1][b], RefAP(b))
            /\ (\A i \in 1..Len(delays[b]) : OneBased(b)[i] \in 1..SrcLen(b)) =>
                  /\ ~RLe(result.value[1][b], R(0))
                  /\ RLe(result.value[1][b], R(1))

\* A batch of two sentences, one with padded target positions and an average
\* proportion below 1, one that waits for the whole source (proportion 1).
C5_Witness ==
    /\ MetricReturned("AverageProportion")
    /\ \E b, c \in 1..Len(delays) :
          /\ TgtLen(b) < Len(delays[b])
          /\ ~REq(result.value[1][b], R(1))
          /\ REq(result.value[1][c], R(1))
          /\ SrcLen(c) > 1

\* The largest step of target position t of sentence b over the heads
RefMaxStep(b, t) ==
    CHOOSE m \in {monotonic_step[b][h][t] : h \in 1..Len(monotonic_step[b])} :
        \A h \in 1..Len(monotonic_step[b]) : monotonic_step[b][h][t] <= m

RefMin(x, y) == IF x <= y THEN x ELSE y

\* C6: LatencyInference hands every metric the delays min(max over heads of the
\* step, src_len - 1), which after the shift by one lie in 1..src_len, and
\* returns a dict of exactly the three metrics computed from those delays.
C6_LatencyInference ==
    (metric = "LatencyInference" /\ result # Pending) =>
        /\ result.raised = NoError
        /\ DOMAIN result.value = MetricKeys
        /\ Size(delays) = <<Len(monotonic_step), Len(monotonic_step[1][1])>>
        /\ \A b \in 1..Len(delays), t \in 1..Len(delays[1]) :
              /\ delays[b][t] = RefMin(RefMaxStep(b, t), SrcLen(b) - 1)
              /\ delays[b][t] + 1 \in 1..SrcLen(b)
        /\ \A key \in MetricKeys :
              /\ Size(result.value[key]) = <<Len(delays), 1>>
              /\ result.value[key] =
                    Transpose(LatencyMetric_call(metric_calculator(key), delays,
                                                 src_lens, None, TRUE, TRUE).value)

\* Two heads that disagree, the later one at eos, on a source of several steps.
C6_Witness ==
    /\ metric = "LatencyInference"
    /\ result.raised = NoError
    /\ ~self_start_from_zero
    /\ \E b \in 1..Len(delays), t \in 1..Len(delays[1]) :
          /\ Len(monotonic_step[b]) = 2
          /\ monotonic_step[b][1][t] < monotonic_step[b][2][t]
          /\ monotonic_step[b][2][t] = SrcLen(b)
          /\ SrcLen(b) > 1
          /\ delays[b][t] = SrcLen(b) - 1

-----------------------------------------------------------------------------
(* models/berard.py: construction of the model *)

IdleLatency ==
    /\ metric = "none"
    /\ delays = None
    /\ src_lens = None
    /\ target_padding_mask = None
    /\ batch_first = FALSE
    /\ start_from_zero = TRUE
    /\ result = Pending
    /\ self_start_from_zero = TRUE
    /\ monotonic_step = None

NextBuild ==
    \/ ApplyArch /\ UNCHANGED <<latencyVars, encoderVars, decoderVars>>
    \/ BuildModel /\ UNCHANGED <<latencyVars, encoderVars, decoderVars>>

InitBuild == ArgsParsed /\ IdleLatency /\ IdleEncoder /\ IdleDecoder

SpecBuild == InitBuild /\ [][NextBuild]_vars

BuildEnded == phase \in {"built", "AttributeError", "TypeError"}

Supplied == Has(args, "encoder_hidden_size") /\ args["encoder_hidden_size"] # None

\* C2: build_model completes; the encoder's LSTM size is --encoder-hidden-size
\* when that option is supplied and --lstm-size when it is not, and the decoder
\* is given the built encoder's output_dim as encoder_output_dim.
C2_BuildModelSizes ==
    BuildEnded =>
        /\ phase = "built"
        /\ encoder.lstm_size = (IF Supplied THEN args["encoder_hidden_size"][1]
                                            ELSE args["lstm_size"][1])
        /\ encoder.output_dim = (IF args["encoder_unidirectional"][1]
                                 THEN encoder.lstm_size ELSE 2 * encoder.lstm_size)
        /\ decoder.encoder_output_dim = encoder.output_dim

-----------------------------------------------------------------------------
(* models/berard.py: the encoder *)

InitEncoder == BatchCollated /\ IdleLatency /\ IdleBuild /\ IdleDecoder

NextEncoder ==
    \/ Forward /\ UNCHANGED <<latencyVars, buildVars, decoderVars>>
    \/ ReorderEncoderOut /\ UNCHANGED <<latencyVars, buildVars, decoderVars>>

SpecEncoder == InitEncoder /\ [][NextEncoder]_vars

ForwardReturned == forward_out.raised = NoError

ForwardCalled == forward_out # NotCalled

C8_PackedLengthsFit ==
    (ForwardCalled /\ conv_layers = DefaultConvLayers) =>
        \A b \in 1..Len(src_lengths) :
            CeilDiv(src_lengths[b], forward_out.locals.subsampling_factor)
                <= forward_out.locals.output_seq_len

-----------------------------------------------------------------------------
(* models/berard.py: the decoder *)

InitDecoder == DecoderReady /\ IdleLatency /\ IdleBuild /\ IdleEncoder

NextDecoder ==
    \/ IncrementalForward /\ UNCHANGED <<latencyVars, buildVars, encoderVars>>
    \/ FullForward /\ UNCHANGED <<latencyVars, buildVars, encoderVars>>
    \/ Reorder /\ UNCHANGED <<latencyVars, buildVars, encoderVars>>

SpecDecoder == InitDecoder /\ [][NextDecoder]_vars

\* The call of layer i at time step j of the last forward
CallAt(j, i) == last_call.layer_calls[(j - 1) * num_layers + i]

\* C9: in the last forward, the layers ran bottom to top at every time step;
\* the bottom layer took as previous (hidden, cell) the state the top layer
\* emitted at the previous time step (zeros at the first step without cache,
\* the cached top-layer state with it); every layer above took the state the
\* layer below had just emitted; attention ran once per time step, on the
\* bottom layer's hidden state, and its output was the input of every layer
\* above the bottom one.
C9_LayerStacking ==
    last_call.seqlen > 0 =>
        /\ Len(last_call.layer_calls) = last_call.seqlen * num_layers
        /\ Len(last_call.attention_calls) = last_call.seqlen
        /\ \A j \in 1..last_call.seqlen :
             /\ last_call.attention_calls[j].j = j
             /\ last_call.attention_calls[j].decoder_state = CallAt(j, 1).hidden
             /\ \A i \in 1..num_layers :
                  LET c == CallAt(j, i)
                      below == CallAt(j, i - 1)
                      top == CallAt(j - 1, num_layers)
                      bsz == Len(c.hidden)
                  IN  /\ c.j = j
                      /\ c.i = i
                      /\ (i = 1 /\ j = 1 /\ ~last_call.cached) =>
                            /\ c.prev_hidden = Zeros(bsz)
                            /\ c.prev_cell = Zeros(bsz)
                      /\ (i = 1 /\ j = 1 /\ last_call.cached) =>
                            /\ c.prev_hidden = last_call.init_hiddens[num_layers]
                            /\ c.prev_cell = last_call.init_cells[num_layers]
                      /\ (i = 1 /\ j > 1) =>
                            /\ c.prev_hidden = top.hidden
                            /\ c.prev_cell = top.cell
                      /\ i > 1 =>
                            /\ c.prev_hidden = below.hidden
                            /\ c.prev_cell = below.cell
                            /\ c.input = last_call.attention_calls[j].attention_out

C9_Witness ==
    /\ last_call.seqlen >= 2
    /\ num_layers >= 2
    /\ CallAt(2, 1).prev_hidden = CallAt(1, num_layers).hidden
    /\ CallAt(2, 1).prev_hidden # CallAt(1, 1).hidden
    /\ CallAt(2, 2).prev_hidden = CallAt(2, 1).hidden
    /\ CallAt(2, 2).input = last_call.attention_calls[2].attention_out

\* C10: the incremental calls made one per token of the growing prefix each
\* return one position; at call t that position equals position t of a forward
\* without incremental_state over a prefix of at least t tokens, and after the
\* call for the last token of that prefix the cached (hiddens, cells) are the
\* final layer states of the full forward.
C10_IncrementalEqualsFull ==
    /\ num_layers > 0 =>
         /\ Len(incremental_outs) = Len(prev_output_tokens[1])
         /\ \A t \in 1..Len(incremental_outs) :
              /\ Len(incremental_outs[t]) = Len(prev_output_tokens)
              /\ \A b \in 1..Len(prev_output_tokens) : Len(incremental_outs[t][b]) = 1
    /\ full_forward.tokens # None =>
         /\ \A b \in 1..Len(full_forward.tokens) :
              \A t \in 1..Len(full_forward.tokens[b]) :
                  incremental_outs[t][b][1] = full_forward.x[b][t]
         /\ full_forward.tokens = prev_output_tokens =>
              incremental_state =
                  << <<full_forward.prev_hiddens, full_forward.prev_cells>> >>

C10_Witness ==
    /\ full_forward.tokens = prev_output_tokens
    /\ num_layers >= 2
    /\ Len(prev_output_tokens) = 2
    /\ Len(prev_output_tokens[1]) >= 2
    /\ prev_output_tokens[1] # prev_output_tokens[2]
    /\ prev_output_tokens[1][1] # prev_output_tokens[1][2]
    /\ incremental_state[1] = <<full_forward.prev_hiddens, full_forward.prev_cells>>
    /\ incremental_outs[2][1][1] = full_forward.x[1][2]

\* C11: after reorder_incremental_state with new_order the cached state is a
\* pair of lists of num_layers tensors, and the hidden and the cell of every
\* layer at every new batch position b are those cached before at
\* new_order[b]; with nothing cached the call leaves incremental_state as it
\* was.
C11_ReorderIncrementalState ==
    last_reorder # NoReorder =>
        LET before == last_reorder.before[1]
            after == last_reorder.after[1]
            new_order == last_reorder.new_order
        IN  /\ before = None => last_reorder.after = last_reorder.before
            /\ before # None =>
                 /\ Len(after) = 2
                 /\ \A k \in 1..2 :
                      /\ Len(after[k]) = num_layers
                      /\ \A l \in 1..num_layers :
                           /\ Len(after[k][l]) = Len(new_order)
                           /\ \A b \in 1..Len(new_order) :
                                after[k][l][b] = before[k][l][new_order[b]]
            /\ incremental_state = last_reorder.after

C11_Witness ==
    /\ last_reorder # NoReorder
    /\ last_reorder.before[1] # None
    /\ last_reorder.new_order = <<2, 1>>
    /\ num_layers >= 2
    /\ last_reorder.after[1][1][2][1] # last_reorder.before[1][1][2][1]
    /\ last_reorder.after[1][2][2][1] # last_reorder.before[1][2][2][1]
    /\ last_reorder.after[1][2][2][1] = last_reorder.before[1][2][2][2]

\* What forward returned for the batch, before any reorder
ForwardResult == BerardEncoder_forward(conv_layers, max_seq_len, src_lengths)

\* The utterance whose states are in column c of encoder_out: the one of its
\* first frame
UtteranceAt(c) == forward_out.encoder_out[1][c][1]

\* C12: after forward and any number of reorder_encoder_out calls, encoder_out
\* and encoder_padding_mask have the same batch size and their time dimensions
\* are those forward returned; column c of encoder_out holds the states forward
\* returned for one utterance, unchanged, and column c of the mask is the mask
\* forward returned for that same utterance.
C12_ReorderEncoderOut ==
    ForwardReturned =>
        /\ Len(forward_out.encoder_out) = Len(ForwardResult.encoder_out)
        /\ Len(forward_out.encoder_padding_mask) =
              Len(ForwardResult.encoder_padding_mask)
        /\ \A t \in 1..Len(forward_out.encoder_out) :
              \A m \in 1..Len(forward_out.encoder_padding_mask) :
                  Len(forward_out.encoder_out[t]) =
                      Len(forward_out.encoder_padding_mask[m])
        /\ \A c \in 1..Len(forward_out.encoder_out[1]) :
              /\ UtteranceAt(c) \in 1..Len(src_lengths)
              /\ Column(forward_out.encoder_out, c) =
                    Column(ForwardResult.encoder_out, UtteranceAt(c))
              /\ Column(forward_out.encoder_padding_mask, c) =
                    Column(ForwardResult.encoder_padding_mask, UtteranceAt(c))

C12_Witness ==
    /\ ForwardReturned
    /\ forward_out # ForwardResult
    /\ Len(forward_out.encoder_out[1]) = 2
    /\ UtteranceAt(1) = 2
    /\ UtteranceAt(2) = 1
    /\ Column(forward_out.encoder_padding_mask, 1) #
          Column(forward_out.encoder_padding_mask, 2)
    /\ Column(forward_out.encoder_padding_mask, 1) =
          Column(ForwardResult.encoder_padding_mask, 2)

-----------------------------------------------------------------------------
(* utils/latency.py: target padding *)

\* The same metric called, batch-first, on sentence b alone with its padded
\* target positions cut off and no mask
AloneCall(b) ==
    LatencyMetric_call(metric, <<SubSeq(delays[b], 1, TgtLen(b))>>, <<src_lens[b]>>,
                       None, TRUE, start_from_zero)

\* The one-based delays of the unpadded positions of sentence b
RealDelays(b) == SubSeq(OneBased(b), 1, TgtLen(b))

\* C13: AverageProportion and DifferentiableAverageLagging, called batch-first
\* with a mask that pads a suffix of the target positions, return for every
\* sentence the value they return for its unpadded target alone, whatever the
\* delays stored at the padded positions; for DifferentiableAverageLagging that
\* is the DAL of the unpadded delays, for AverageProportion their sum over |x||y|.
C13_PaddingAddsNothing ==
    ((MetricReturned("AverageProportion")
       \/ MetricReturned("DifferentiableAverageLagging"))
     /\ target_padding_mask # None) =>
        \A b \in 1..Len(delays) :
            /\ AloneCall(b).raised = NoError
            /\ REq(result.value[1][b], AloneCall(b).value[1][1])
            /\ metric = "DifferentiableAverageLagging" =>
                  REq(result.value[1][b], RefDAL(RealDelays(b), SrcLen(b)))
            /\ metric = "AverageProportion" =>
                  REq(result.value[1][b],
                      <<SumSeq(RealDelays(b)), SrcLen(b) * TgtLen(b)>>)

\* A DifferentiableAverageLagging call on a sentence with a padded position
\* that stores a delay above the source's first step
C13_Witness ==
    /\ MetricReturned("DifferentiableAverageLagging")
    /\ target_padding_mask # None
    /\ \E b \in 1..Len(delays) :
          /\ TgtLen(b) < Len(delays[b])
          /\ OneBased(b)[Len(delays[b])] > 1
          /\ REq(result.value[1][b], AloneCall(b).value[1][1])

\* C14: AverageLagging, called batch-first with a mask that pads a suffix of
\* the target positions, returns for every sentence with non-decreasing
\* unpadded delays the AverageLagging of its unpadded target alone.
C14_AverageLaggingPadding ==
    (MetricReturned("AverageLagging") /\ target_padding_mask # None) =>
        \A b \in 1..Len(delays) :
            NonDecreasing(RealDelays(b)) =>
                /\ AloneCall(b).raised = NoError
                /\ REq(result.value[1][b], AloneCall(b).value[1][1])

-----------------------------------------------------------------------------
(* models/berard.py: MLPAttention *)

InitAttention == AttentionReady /\ IdleLatency /\ IdleBuild /\ IdleEncoder

NextAttention ==
    \/ Attend /\ UNCHANGED <<latencyVars, buildVars, encoderVars>>

SpecAttention == InitAttention /\ [][NextAttention]_vars

\* Whether source position t of sentence b is padding in the call
AttnPad(b, t) ==
    /\ attention_in.encoder_padding_mask # None
    /\ attention_in.encoder_padding_mask[t][b]

\* The source states of sentence b with those at its padded positions replaced
\* in every way
ReplacedAtPadding(b) ==
    {hids \in [1..Len(attention_in.source_hids) -> HidValues] :
        \A t \in 1..Len(attention_in.source_hids) :
            ~AttnPad(b, t) => hids[t] = attention_in.source_hids[t][b]}

\* C15: for every sentence of an attention call with an unpadded source
\* position, the weight of every padded position is 0, the weights of the
\* unpadded positions sum to 1, and the call returns the same context whatever
\* encoder states stand at the padded positions.
C15_AttentionIgnoresPadding ==
    attention_out # None =>
        \A b \in 1..Len(attention_out) :
            LET src == 1..Len(attention_in.source_hids)
                w == attention_out[b].scores
                mask == IF attention_in.encoder_padding_mask = None THEN None
                        ELSE Column(attention_in.encoder_padding_mask, b)
            IN  (\E t \in src : ~AttnPad(b, t)) =>
                    /\ \A t \in src : AttnPad(b, t) => REq(w[t], R(0))
                    /\ REq(RSumSeq(Vec([t \in src |->
                              IF AttnPad(b, t) THEN R(0) ELSE w[t]])), R(1))
                    /\ \A hids \in ReplacedAtPadding(b) :
                          LET r == MLPAttention_forward(
                                      attention_in.decoder_state[b], Vec(hids), mask)
                          IN  /\ r.context = attention_out[b].context
                              /\ REq(r.attn_weighted_context,
                                     attention_out[b].attn_weighted_context)

\* A sentence with a padded position whose encoder state would change the
\* context if it were attended to
C15_Witness ==
    /\ attention_out # None
    /\ \E b \in 1..Len(attention_out) :
          /\ \E t \in 1..Len(attention_in.source_hids) : AttnPad(b, t)
          /\ \E hids \in ReplacedAtPadding(b) :
                /\ Vec(hids) # Column(attention_in.source_hids, b)
                /\ ~REq(MLPAttention_forward(attention_in.decoder_state[b],
                                             Vec(hids), None).attn_weighted_context,
                        attention_out[b].attn_weighted_context)
                /\ REq(MLPAttention_forward(
                          attention_in.decoder_state[b], Vec(hids),
                          Column(attention_in.encoder_padding_mask, b)
                       ).attn_weighted_context,
                       attention_out[b].attn_weighted_context)

=============================================================================
